---------------------------- MODULE Spec2Model ----------------------------
(***************************************************************************)
(* Credible Confessions: the signing page (webapp/index.js), the React     *)
(* rewrite of its authors card (webapp/src/App.js), the crypto worker      *)
(* (worker onmessage, App.js 208-251), the verifying page (verify.js) and  *)
(* the ring-signature core behind the worker (the ringsig crate; modelled  *)
(* from the specification, sections 3, 4 and 7, as its code is not part of *)
(* the sources at hand).                                                   *)
(*                                                                         *)
(* Values.  A JavaScript string that matters by its structure is a record: *)
(*   key line   [t, pre, alg, keylen, enc, len]   "ssh-ed25519 AAAA..."    *)
(*   PEM text   [t, kind = "pem", cipher, kdf, check1, check2, seed, pub]  *)
(*   hex text   [t, kind = "hex", blocks, extra]  blocks of 32 bytes       *)
(*   other text [t, kind = "junk"], the empty string [t, kind = "empty"]   *)
(* and a value that is no string is [t |-> "number"].                      *)
(* The group is Z_L written additively: the point k.B is encoded as k.     *)
(***************************************************************************)
EXTENDS Integers, Sequences, FiniteSets, TLC

-----------------------------------------------------------------------------
(* Bounds of the model *)

\* addAuthor calls (clicks on 'Add Author') in one run
MaxAdd == 2
\* publishMessage calls (clicks on 'Publish') in one run
MaxPublish == 2
\* edits of the message textarea in one run
MaxEdits == 1
\* keys in a ring handed to the core directly
MaxRing == 2

-----------------------------------------------------------------------------
(* The ring-signature core (specification sections 3 and 4) *)

\* The group order l, scaled down.
L == 5
\* Bytes per encoded scalar or point.
BlockBytes == 32

Scalars == 0 .. (L - 1)

\* s.B
BaseMul(s) == s % L

\* c.P
PointMul(c, P) == (c * P) % L

\* A mistaken commitment: the sign of c.P is wrong.
CommitmentSum(s, c, P) == (BaseMul(s) + PointMul(c, P)) % L

\* R = s.B - c.P
Commitment(s, c, P) == (BaseMul(s) + L - PointMul(c, P)) % L

\* SHA-512 over a byte string (a stand-in: a polynomial hash).
RECURSIVE Sha512(_, _)
Sha512(bytes, acc) ==
    IF bytes = <<>> THEN acc
    ELSE Sha512(Tail(bytes), (acc * 31 + Head(bytes) + 7) % 251)

\* H(ring_bytes || message || R) = SHA-512(...) mod l
HashToScalar(ring, message, R) == Sha512(ring \o message \o <<R>>, 1) % L

\* a = clamp(SHA-512(seed)[0..32]): never zero.
SecretScalar(seed) == (Sha512(<<seed>>, 1) % (L - 1)) + 1

\* The one-line OpenSSH public key of the point encoded as enc, with a
\* trailing comment of commentLen characters.
KeyLine(enc, commentLen) ==
    [t |-> "string", pre |-> "ssh-ed25519 ", alg |-> "ssh-ed25519",
     keylen |-> 32, enc |-> enc, len |-> 80 + commentLen]

\* The unencrypted OpenSSH PEM of a seed.
SecretPem(seed) ==
    [t |-> "string", kind |-> "pem", cipher |-> "none", kdf |-> "none",
     check1 |-> 1, check2 |-> 1, seed |-> seed,
     pub |-> BaseMul(SecretScalar(seed))]

EmptyText == [t |-> "string", kind |-> "empty"]

\* 4.1: the parser of a public key line: ok, the error kind, the point.
ParsePublicKey(line) ==
    IF line.t # "string" THEN [ok |-> FALSE, err |-> "PARSE_PUBKEY", pt |-> 0]
    ELSE IF ~ ("pre" \in DOMAIN line) THEN [ok |-> FALSE, err |-> "PARSE_PUBKEY", pt |-> 0]
    ELSE IF line.pre # "ssh-ed25519 " \/ line.alg # "ssh-ed25519" \/ line.keylen # 32
         THEN [ok |-> FALSE, err |-> "PARSE_PUBKEY", pt |-> 0]
    ELSE IF line.enc >= L THEN [ok |-> FALSE, err |-> "INVALID_POINT", pt |-> 0]
    ELSE [ok |-> TRUE, err |-> "", pt |-> line.enc]

\* 4.1: the parser of the secret key PEM.
ParseSecretKey(text) ==
    IF text.t # "string" \/ ~ ("kind" \in DOMAIN text) THEN [ok |-> FALSE, a |-> 0, A |-> 0]
    ELSE IF text.kind # "pem" THEN [ok |-> FALSE, a |-> 0, A |-> 0]
    ELSE IF text.cipher # "none" \/ text.kdf # "none" \/ text.check1 # text.check2
         THEN [ok |-> FALSE, a |-> 0, A |-> 0]
    ELSE IF text.pub # BaseMul(SecretScalar(text.seed)) THEN [ok |-> FALSE, a |-> 0, A |-> 0]
    ELSE [ok |-> TRUE, a |-> SecretScalar(text.seed), A |-> text.pub]

\* 4.1: IsSecretKey: parsing as an unencrypted ed25519 secret key succeeds.
IsSecretKey(text) == ParseSecretKey(text).ok

\* The first error of parsing the keys of a ring, or "".
RECURSIVE RingError(_)
RingError(publicKeys) ==
    IF publicKeys = <<>> THEN ""
    ELSE IF ~ ParsePublicKey(Head(publicKeys)).ok THEN ParsePublicKey(Head(publicKeys)).err
    ELSE RingError(Tail(publicKeys))

\* The ring of points of a list of key lines that all parse.
RingOf(publicKeys) == [i \in 1 .. Len(publicKeys) |-> ParsePublicKey(publicKeys[i]).pt]

\* A mistaken search: the signer is taken to stand first in any ring.
SignerIndexFirst(ring, A) == IF ring = <<>> THEN -1 ELSE 0

\* 4.3: the index pi (from 0) where P_pi = A; -1 when absent.
SignerIndex(ring, A) ==
    IF \E i \in 1 .. Len(ring) : ring[i] = A
    THEN (CHOOSE i \in 1 .. Len(ring) : ring[i] = A /\ \A j \in 1 .. (i - 1) : ring[j] # A) - 1
    ELSE -1

\* 4.3 step 3: walk the ring from pi+1 to pi-1; k is the number of the decoy,
\* cs the challenges known so far, ss the responses.
RECURSIVE WalkRing(_, _, _, _, _, _, _)
WalkRing(ring, message, pi, k, cs, ss, decoys) ==
    LET n == Len(ring)
        i == (pi + k) % n
        R == Commitment(decoys[k], cs[i], ring[i + 1])
    IN  IF k >= n THEN [cs |-> cs, ss |-> ss]
        ELSE WalkRing(ring, message, pi, k + 1,
                      [cs EXCEPT ![(i + 1) % n] = HashToScalar(ring, message, R)],
                      [ss EXCEPT ![i] = decoys[k]], decoys)

\* 4.3: the AOS signature <<c_0, s_0, ..., s_{n-1}>> of the signer at pi with
\* the nonce u and the decoy responses decoys.
AosSign(ring, message, a, pi, u, decoys) ==
    LET n == Len(ring)
        zero == [i \in 0 .. (n - 1) |-> 0]
        w == WalkRing(ring, message, pi, 1,
                      [zero EXCEPT ![(pi + 1) % n] = HashToScalar(ring, message, BaseMul(u))],
                      zero, decoys)
        spi == (u + w.cs[pi] * a) % L
        ss == [w.ss EXCEPT ![pi] = spi]
    IN  <<w.cs[0]>> \o [i \in 1 .. n |-> ss[i - 1]]

\* 4.5: the wire form of a signature: one block per scalar, hex-wrapped.
EncodeSignature(sig) == [t |-> "string", kind |-> "hex", blocks |-> sig, extra |-> 0]

\* A mistaken decoder: bytes after the last whole block are dropped.
DecodeSignatureLax(proof) ==
    IF proof.t # "string" \/ ~ ("kind" \in DOMAIN proof) THEN [ok |-> FALSE, sig |-> <<>>]
    ELSE IF proof.kind # "hex" THEN [ok |-> FALSE, sig |-> <<>>]
    ELSE IF Len(proof.blocks) = 0 THEN [ok |-> FALSE, sig |-> <<>>]
    ELSE IF \E i \in 1 .. Len(proof.blocks) : proof.blocks[i] >= L THEN [ok |-> FALSE, sig |-> <<>>]
    ELSE [ok |-> TRUE, sig |-> proof.blocks]

\* 4.5: the decoder: ok, and the scalars.
DecodeSignature(proof) ==
    IF proof.t # "string" \/ ~ ("kind" \in DOMAIN proof) THEN [ok |-> FALSE, sig |-> <<>>]
    ELSE IF proof.kind # "hex" THEN [ok |-> FALSE, sig |-> <<>>]
    ELSE IF proof.extra # 0 \/ Len(proof.blocks) = 0 THEN [ok |-> FALSE, sig |-> <<>>]
    ELSE IF \E i \in 1 .. Len(proof.blocks) : proof.blocks[i] >= L THEN [ok |-> FALSE, sig |-> <<>>]
    ELSE [ok |-> TRUE, sig |-> proof.blocks]

\* The number of bytes a hex text decodes to.
DecodedLength(proof) == BlockBytes * Len(proof.blocks) + proof.extra

\* What the entropy source can give a Prove over n keys: a failure, or the
\* nonce u and the n-1 decoy responses.
RngDraws(n) ==
    {[ok |-> FALSE, u |-> 0, decoys |-> <<>>]} \cup
    {[ok |-> TRUE, u |-> u, decoys |-> d] :
        u \in Scalars, d \in [1 .. (IF n > 0 THEN n - 1 ELSE 0) -> Scalars]}

\* 4.6: prove(publicKeys, message, secretKey) -> <<proof, error>>, with what
\* the entropy source gave.
Prove(publicKeys, message, secretKey, rng) ==
    LET sk == ParseSecretKey(secretKey)
        ring == RingOf(publicKeys)
        pi == SignerIndex(ring, sk.A)
    IN  IF ~ sk.ok THEN <<EmptyText, "PARSE_SECKEY">>
        ELSE IF RingError(publicKeys) # "" THEN <<EmptyText, RingError(publicKeys)>>
        ELSE IF pi < 0 THEN <<EmptyText, "SIGNER_NOT_IN_RING">>
        ELSE IF ~ rng.ok THEN <<EmptyText, "RNG_FAILURE">>
        ELSE <<EncodeSignature(AosSign(ring, message, sk.a, pi, rng.u, rng.decoys)), "">>

\* Every result prove can return on these arguments.
ProveOutcomes(publicKeys, message, secretKey) ==
    {Prove(publicKeys, message, secretKey, rng) : rng \in RngDraws(Len(publicKeys))}

\* 4.4 step 1: the challenge chain from c_i at position i (from 0) to c_n.
RECURSIVE ChallengeChain(_, _, _, _, _)
ChallengeChain(ring, message, sig, i, c) ==
    IF i >= Len(ring) THEN c
    ELSE ChallengeChain(ring, message, sig, i + 1,
             HashToScalar(ring, message, Commitment(sig[i + 2], c, ring[i + 1])))

\* 4.6: verify(proof, publicKeys, message) -> error, empty on acceptance.
Verify(proof, publicKeys, message) ==
    LET dec == DecodeSignature(proof)
        ring == RingOf(publicKeys)
    IN  IF RingError(publicKeys) # "" THEN RingError(publicKeys)
        ELSE IF Len(publicKeys) = 0 THEN "PARSE_PUBKEY"
        ELSE IF ~ dec.ok THEN "PARSE_SIG"
        ELSE IF Len(dec.sig) - 1 # Len(ring) THEN "PARSE_SIG"
        ELSE IF ChallengeChain(ring, message, dec.sig, 0, dec.sig[1]) # dec.sig[1]
             THEN "SIG_MISMATCH"
        ELSE ""

-----------------------------------------------------------------------------
(* The environment: GitHub, and what the user can type *)

Usernames == {"alice", "bob", "carol"}

\* A public key line of another type.
RsaLine ==
    [t |-> "string", pre |-> "ssh-rsa ", alg |-> "ssh-rsa", keylen |-> 256,
     enc |-> 0, len |-> 380]

\* A value that is no string.
NotAString == [t |-> "number"]

\* The seeds of the secret keys: alice's, and bob's three (the one of his
\* desktop is on GitHub with a trailing comment).
Seed == [alice |-> 0, bob |-> 1, desktop |-> 2, laptop |-> 3]

PublicEnc(seed) == BaseMul(SecretScalar(seed))

\* The body of https://api.github.com/users/<username>/keys: alice has an
\* ed25519 key and an RSA key; bob an ed25519 key with a trailing comment, an
\* ed25519 key without one, an entry whose key is no string and a second
\* ed25519 key without a comment; anybody else an RSA key only.
GithubKeys(username) ==
    CASE username = "alice" ->
           <<[id |-> 1, key |-> KeyLine(PublicEnc(Seed.alice), 0)], [id |-> 2, key |-> RsaLine]>>
      [] username = "bob" ->
           <<[id |-> 3, key |-> KeyLine(PublicEnc(Seed.desktop), 11)],
             [id |-> 4, key |-> KeyLine(PublicEnc(Seed.bob), 0)],
             [id |-> 5, key |-> NotAString],
             [id |-> 6, key |-> KeyLine(PublicEnc(Seed.laptop), 0)]>>
      [] OTHER -> <<[id |-> 7, key |-> RsaLine]>>

\* The values of the message textarea.
MessageTexts == {<<>>, <<1>>}

\* A passphrase-protected PEM.
EncryptedPem(seed) ==
    [t |-> "string", kind |-> "pem", cipher |-> "aes256-ctr", kdf |-> "bcrypt",
     check1 |-> 1, check2 |-> 1, seed |-> seed, pub |-> PublicEnc(seed)]

JunkText == [t |-> "string", kind |-> "junk"]

\* A proof made elsewhere (ringsig-cli) that the user may paste: one for the
\* ring of alice's key and the empty message.
PastedProof ==
    EncodeSignature(AosSign(<<PublicEnc(Seed.alice)>>, <<>>, SecretScalar(Seed.alice), 0, 1, <<>>))

\* What the user may paste into the sigOrKey box.
SigOrKeyTexts ==
    {SecretPem(Seed.alice), SecretPem(Seed.desktop), EncryptedPem(Seed.alice), PastedProof}

\* What the entropy source gives the worker: it fails, or gives one of a few
\* draws.
WorkerRngDraws(n) ==
    {rng \in RngDraws(n) :
        rng.ok => /\ rng.u \in {1, 2}
                  /\ \A i \in DOMAIN rng.decoys : rng.decoys[i] = 0}

Undefined == [t |-> "undefined"]

FetchResults == {"ok", "notok", "reject"}

JsonResults == {"ok", "reject"}

-----------------------------------------------------------------------------
(* State.  One step of a page is one task of its event loop together with   *)
(* the microtasks it leaves: an await of a promise that is already resolved *)
(* (getWorker) continues within the step.                                   *)

VARIABLES
    page,            \* the page loaded: "index", "react", "verify", "verifyOld";
                     \* "core" for the core alone, "worker" for the worker
                     \* and its transport alone
    authors,         \* index.js: the global array of authors
    addAuthorError,  \* index.js: innerHTML of #addAuthorError
    authorsDiv,      \* index.js: the ids of the children of #authors
    addCalls,        \* index.js: the addAuthor calls, by click
    messageDom,      \* index.js: value of the #message textarea
    edits,           \* edits of the message so far
    publishError,    \* index.js: innerHTML of #publishError
    pubCalls,        \* index.js: the publishMessage calls, by click
    workerNonce,     \* index.js: the nonce counter
    activeQueries,   \* index.js: nonce -> resolver (named by the nonce of the
                     \* postWorkerMessage call whose promise it resolves)
    workerInit,      \* worker: messages posted, their handlers not yet past init()
    fromWorker,      \* responses posted by the worker, not yet handled
    authorList,      \* App.js: the React state of AuthorsCard
    authorSet,       \* App.js: the global authorSet
    reactCalls,      \* App.js: the addAuthor calls, by click
    coreIn,          \* the arguments of a direct call of the core
    coreOut,         \* what prove returned
    coreVerdict,     \* what verify returned
    corePc,          \* the stage of the direct call
    locationHash,    \* verify.js: window.location.hash
    skylinkData,     \* verify.js: the document downloaded
    perfPc,          \* verify.js: the await performVerification stands at
    status,          \* verify.js: colour and text of the verification status bar
    downloadDisabled,\* verify.js: downloadMessage.disabled
    readMessage,     \* verify.js: innerHTML of #readMessage: the text of the
                     \* message, put through escapeHtml or not
    entries,         \* verify.js: the children of #authors, their id and colour
    runs,            \* verify.js: the verifyAuthor calls, in the order started
    allFound         \* verify.js: the global allFound

pageVars == <<authors, addAuthorError, authorsDiv, addCalls, messageDom, edits,
              publishError, pubCalls, workerNonce, activeQueries, workerInit, fromWorker>>

reactVars == <<authorList, authorSet, reactCalls>>

coreVars == <<coreIn, coreOut, coreVerdict, corePc>>

verifyVars == <<locationHash, skylinkData, perfPc, status, downloadDisabled, readMessage,
                entries, runs, allFound>>

vars == <<page, pageVars, reactVars, coreVars, verifyVars>>

\* DOM strings are tuples of their parts; the empty string has none.
EmptyString == <<>>

IdleAdd == [pc |-> "idle", username |-> ""]

DoneAdd == [pc |-> "done", username |-> ""]

\* A publishMessage call: the await it stands at (pc), its locals, the
\* message of its postWorkerMessage call (msg), and how it ended (outcome).
IdlePublish ==
    [pc |-> "idle", sigOrKey |-> Undefined, msg |-> Undefined,
     isSecKeyResp |-> Undefined, authorsRead |-> <<>>,
     message |-> <<>>, publicKeys |-> <<>>, proofResponse |-> Undefined,
     proof |-> Undefined, outcome |-> "none"]

\* A call that has returned (or thrown): its locals are gone.
Ended(outcome) == [IdlePublish EXCEPT !.pc = "done", !.outcome = outcome]

\* The awaits of postWorkerMessage a publishMessage call can stand at.
Waiting == {"isSecretKey", "prove", "verify"}

IdleReact == [pc |-> "idle", username |-> "", authorList |-> <<>>]

DoneReact == [pc |-> "done", username |-> "", authorList |-> <<>>]

NoCore == [publicKeys |-> <<>>, message |-> <<>>, secretKey |-> Undefined]

PageInit ==
    /\ authors = <<>>
    /\ addAuthorError = EmptyString
    /\ authorsDiv = <<>>
    /\ addCalls = [i \in 1 .. MaxAdd |-> IdleAdd]
    /\ messageDom = <<>>
    /\ edits = 0
    /\ publishError = EmptyString
    /\ pubCalls = [i \in 1 .. MaxPublish |-> IdlePublish]
    /\ workerNonce = 0
    /\ activeQueries = <<>>
    /\ workerInit = {}
    /\ fromWorker = <<>>

ReactInit ==
    /\ authorList = <<>>
    /\ authorSet = <<>>
    /\ reactCalls = [i \in 1 .. MaxAdd |-> IdleReact]

\* A colour handed to setVerificationStatus: hex digits, after a '#' or not.
Colour(hash, hex) == [hash |-> hash, hex |-> hex]

\* The status bar as the page's HTML has it, before any status is set.
NoStatus == [color |-> Colour(FALSE, ""), message |-> EmptyString]

\* The verifying page is not loaded.
VerifyIdle ==
    /\ locationHash = 0
    /\ skylinkData = Undefined
    /\ perfPc = "off"
    /\ status = NoStatus
    /\ downloadDisabled = TRUE
    /\ readMessage = Undefined
    /\ entries = <<>>
    /\ runs = <<>>
    /\ allFound = Undefined

CoreIdle ==
    /\ coreIn = NoCore
    /\ coreOut = <<EmptyText, "">>
    /\ coreVerdict = ""
    /\ corePc = "off"

Init ==
    /\ page \in {"index", "react"}
    /\ PageInit
    /\ ReactInit
    /\ CoreIdle
    /\ VerifyIdle

-----------------------------------------------------------------------------
(* index.js: addAuthor *)

\* isDuplicateAuthor(newAuthor), index.js 23-30
RECURSIVE isDuplicateAuthorFrom(_, _, _)
isDuplicateAuthorFrom(as, i, username) ==
    IF i > Len(as) THEN FALSE
    ELSE IF as[i].username = username THEN TRUE
    ELSE isDuplicateAuthorFrom(as, i + 1, username)

\* A mistaken test: the username is compared with the platform of the entries.
isDuplicateAuthorByPlatform(username) ==
    \E i \in 1 .. Len(authors) : authors[i].platform = username

isDuplicateAuthor(username) == isDuplicateAuthorFrom(authors, 1, username)

\* A mistaken test: the type of the key alone.
KeepsKeyOfAnyType(entry) == entry.key.t = "string"

\* The test of one entry of the response, index.js 67-75
KeepsKey(entry) ==
    /\ entry.key.t = "string"
    /\ entry.key.pre = "ssh-ed25519 "
    /\ entry.key.len = 80

\* The loop over keysObj, index.js 65-77
RECURSIVE ParseKeys(_, _, _)
ParseKeys(keysObj, i, keys) ==
    IF i > Len(keysObj) THEN keys
    ELSE IF KeepsKey(keysObj[i]) THEN ParseKeys(keysObj, i + 1, Append(keys, keysObj[i].key))
    ELSE ParseKeys(keysObj, i + 1, keys)

\* A mistaken test: a lone key counts as none.
NoValidKeysButOne(keys) == Len(keys) = 1

\* The test of the parsed keys, index.js 79
NoValidKeys(keys) == Len(keys) = 0

\* A mistaken id: the username is left out.
AuthorDivIdOfNone(username) == <<"githubAuthor">>

\* authorDiv.id, index.js 114
AuthorDivId(username) == <<"githubAuthor", username>>

AvatarURL(username) == <<"https://github.com/", username, ".png">>

NewAuthor(username, keys) ==
    [platform |-> "GitHub", username |-> username, avatarURL |-> AvatarURL(username),
     keys |-> keys]

\* The next call not yet made: calls are numbered by click.
NextCall(calls) ==
    IF \E i \in DOMAIN calls : calls[i].pc = "idle"
    THEN CHOOSE i \in DOMAIN calls :
             calls[i].pc = "idle" /\ \A j \in 1 .. (i - 1) : calls[j].pc # "idle"
    ELSE 0

\* A click on 'Add Author' with username in #addAuthorText: index.js 35-57,
\* up to the await of fetch.
addAuthorClick(username) ==
    LET c == NextCall(addCalls) IN
    /\ page = "index"
    /\ c # 0
    /\ IF isDuplicateAuthor(username)
       THEN /\ addAuthorError' = <<"author has already been added">>
            /\ addCalls' = [addCalls EXCEPT ![c] = DoneAdd]
       ELSE /\ addCalls' = [addCalls EXCEPT ![c] = [pc |-> "fetch", username |-> username]]
            /\ UNCHANGED addAuthorError
    /\ UNCHANGED <<page, authors, authorsDiv, messageDom, edits, publishError, pubCalls,
                   workerNonce, activeQueries, workerInit, fromWorker>>
    /\ UNCHANGED <<reactVars, coreVars, verifyVars>>

\* fetch(keysAPI) settles: index.js 57-64 and 122-125. It rejects, or gives a
\* response that is not ok, or one that is ok, whose body is then awaited.
addAuthorFetched(c, result) ==
    /\ page = "index"
    /\ addCalls[c].pc = "fetch"
    /\ CASE result = "reject" ->
              /\ addAuthorError' = <<"TypeError: Failed to fetch">>
              /\ addCalls' = [addCalls EXCEPT ![c] = DoneAdd]
         [] result = "notok" ->
              /\ addAuthorError' = <<"error adding ", addCalls[c].username, ": ", "404">>
              /\ addCalls' = [addCalls EXCEPT ![c] = DoneAdd]
         [] OTHER ->
              /\ addCalls' = [addCalls EXCEPT ![c].pc = "json"]
              /\ UNCHANGED addAuthorError
    /\ UNCHANGED <<page, authors, authorsDiv, messageDom, edits, publishError, pubCalls,
                   workerNonce, activeQueries, workerInit, fromWorker>>
    /\ UNCHANGED <<reactVars, coreVars, verifyVars>>

\* response.json() settles: index.js 64-125.
addAuthorParsed(c, result) ==
    LET username == addCalls[c].username
        keys == ParseKeys(GithubKeys(username), 1, <<>>)
    IN
    /\ page = "index"
    /\ addCalls[c].pc = "json"
    /\ addCalls' = [addCalls EXCEPT ![c] = DoneAdd]
    /\ IF result = "reject"
       THEN /\ addAuthorError' = <<"SyntaxError: Unexpected token">>
            /\ UNCHANGED <<authors, authorsDiv>>
       ELSE IF NoValidKeys(keys)
       THEN /\ addAuthorError' = <<"no valid keys found">>
            /\ UNCHANGED <<authors, authorsDiv>>
       ELSE IF isDuplicateAuthor(username)
       THEN /\ addAuthorError' = <<"author has already been added">>
            /\ UNCHANGED <<authors, authorsDiv>>
       ELSE /\ authors' = Append(authors, NewAuthor(username, keys))
            /\ authorsDiv' = Append(authorsDiv, AuthorDivId(username))
            /\ addAuthorError' = EmptyString
    /\ UNCHANGED <<page, messageDom, edits, publishError, pubCalls,
                   workerNonce, activeQueries, workerInit, fromWorker>>
    /\ UNCHANGED <<reactVars, coreVars, verifyVars>>

\* The user edits the message textarea.
editMessage(text) ==
    /\ page = "index"
    /\ edits < MaxEdits
    /\ text # messageDom
    /\ messageDom' = text
    /\ edits' = edits + 1
    /\ UNCHANGED <<page, authors, addAuthorError, authorsDiv, addCalls, publishError,
                   pubCalls, workerNonce, activeQueries, workerInit, fromWorker>>
    /\ UNCHANGED <<reactVars, coreVars, verifyVars>>

-----------------------------------------------------------------------------
(* index.js: publishMessage, postWorkerMessage, handleWorkerMessage *)

\* A mistaken inner loop: the first key of the author only.
PushFirstKeyOnly(authorKeys, j, publicKeys) ==
    IF authorKeys = <<>> THEN publicKeys ELSE Append(publicKeys, authorKeys[1])

\* The inner loop of publishMessage over one author's keys, index.js 145-147
RECURSIVE PushAuthorKeys(_, _, _)
PushAuthorKeys(authorKeys, j, publicKeys) ==
    IF j > Len(authorKeys) THEN publicKeys
    ELSE PushAuthorKeys(authorKeys, j + 1, Append(publicKeys, authorKeys[j]))

\* The loop of publishMessage over the authors, index.js 142-148
RECURSIVE PublishPublicKeys(_, _, _)
PublishPublicKeys(as, i, publicKeys) ==
    IF i > Len(as) THEN publicKeys
    ELSE PublishPublicKeys(as, i + 1, PushAuthorKeys(as[i].keys, 1, publicKeys))

\* The loop of performVerification, verify.js 74-77: push(...authors[i].keys)
RECURSIVE VerifyPublicKeys(_, _, _)
VerifyPublicKeys(as, i, publicKeys) ==
    IF i > Len(as) THEN publicKeys
    ELSE VerifyPublicKeys(as, i + 1, publicKeys \o as[i].keys)

\* postWorkerMessage, index.js 206-208: the message is stamped with the nonce.
StampNonce(messageData) == [n \in {"nonce"} |-> workerNonce] @@ messageData

\* activeQueries[nonce] = resolve, index.js 216-218
Register(queries, nonce) == [n \in {nonce} |-> nonce] @@ queries

\* postWorkerMessage(messageData), index.js 204-219, up to its last await:
\* the nonce is taken, the message stamped and posted, the resolver stored
\* under the nonce. queries is activeQueries as the call finds it.
postWorkerMessage(messageData, queries) ==
    /\ workerNonce' = workerNonce + 1
    /\ workerInit' = workerInit \cup {StampNonce(messageData)}
    /\ activeQueries' = Register(queries, workerNonce)

\* A click on 'Publish' with text in #sigOrKey: index.js 130-138, up to the
\* await of the isSecretKey response.
publishClick(text) ==
    LET c == NextCall(pubCalls)
        messageData == [method |-> "isSecretKey", secretKey |-> text]
    IN
    /\ page = "index"
    /\ c # 0
    /\ pubCalls' = [pubCalls EXCEPT ![c] =
           [IdlePublish EXCEPT !.pc = "isSecretKey", !.sigOrKey = text,
                               !.msg = StampNonce(messageData)]]
    /\ postWorkerMessage(messageData, activeQueries)
    /\ UNCHANGED <<page, authors, addAuthorError, authorsDiv, addCalls, messageDom, edits,
                   publishError, fromWorker>>
    /\ UNCHANGED <<reactVars, coreVars, verifyVars>>

\* What a stretch of publishMessage between two awaits leaves: the call, the
\* message it hands to postWorkerMessage (Undefined: none), and the publish
\* error it sets (set: whether it sets one).
Stretch(call, post, set, text) ==
    [call |-> call, post |-> post, set |-> set, text |-> text]

\* A mistaken verify request: the keys and the message are read again.
VerifyRequestReadAgain(call) ==
    [method |-> "verify", proof |-> call.proof,
     publicKeys |-> PublishPublicKeys(authors, 1, <<>>), message |-> messageDom]

\* The verify request of publishMessage, index.js 170-175
VerifyRequest(call) ==
    [method |-> "verify", proof |-> call.proof, publicKeys |-> call.publicKeys,
     message |-> call.message]

\* The prove request of publishMessage, index.js 154-159
ProveRequest(call) ==
    [method |-> "prove", publicKeys |-> call.publicKeys, message |-> call.message,
     secretKey |-> call.sigOrKey]

\* index.js 169-175: with its proof the call asks for the verification.
publishVerify(call) ==
    Stretch([call EXCEPT !.pc = "verify", !.msg = StampNonce(VerifyRequest(call))],
            VerifyRequest(call), FALSE, EmptyString)

\* A mistaken test: any response counts as a secret key.
AlwaysSecretKey(isSecKeyResp) == TRUE

\* isSecKeyResp.isSecretKey === true, index.js 153
HasSecretKey(isSecKeyResp) ==
    "isSecretKey" \in DOMAIN isSecKeyResp /\ isSecKeyResp.isSecretKey = TRUE

\* index.js 135-175 after the isSecretKey response: the message and the keys
\* are read, and prove is asked, or verify of the pasted text.
publishAfterIsSecretKey(call, isSecKeyResp) ==
    LET read == [call EXCEPT !.isSecKeyResp = isSecKeyResp,
                             !.authorsRead = authors,
                             !.message = messageDom,
                             !.publicKeys = PublishPublicKeys(authors, 1, <<>>)]
    IN  IF HasSecretKey(isSecKeyResp)
        THEN Stretch([read EXCEPT !.pc = "prove", !.msg = StampNonce(ProveRequest(read))],
                     ProveRequest(read), FALSE, EmptyString)
        ELSE publishVerify([read EXCEPT !.proof = call.sigOrKey])

\* A mistaken test: the error slot is not looked at.
ProveNeverFailed(proofResponse) == FALSE

\* proofResponse.proof[1] !== "", index.js 160
ProveFailed(proofResponse) == proofResponse.proof[2] # ""

\* A mistaken stretch: the pasted text goes on to verify as the proof.
publishAfterProveWithPasted(call, proofResponse) ==
    publishVerify([call EXCEPT !.proofResponse = proofResponse, !.proof = call.sigOrKey])

\* index.js 154-175 after the prove response: an error ends the call, else
\* the proof is taken and verify is asked. A response without a proof makes
\* line 160 throw.
publishAfterProve(call, proofResponse) ==
    IF ~ ("proof" \in DOMAIN proofResponse)
    THEN Stretch(Ended("threw"), Undefined, FALSE, EmptyString)
    ELSE IF ProveFailed(proofResponse)
    THEN Stretch(Ended("unable to sign message"), Undefined, TRUE,
                 <<"unable to sign message: ", proofResponse.proof[2]>>)
    ELSE publishVerify([call EXCEPT !.proofResponse = proofResponse,
                                    !.proof = proofResponse.proof[1]])

\* A mistaken test: the answer of verify is not looked at.
ProofNeverInvalid(isValidProofResp) == FALSE

\* isValidProof !== "", index.js 176-177
ProofInvalid(isValidProofResp) ==
    ~ ("isValidProof" \in DOMAIN isValidProofResp /\ isValidProofResp.isValidProof = "")

\* index.js 176-183 after the verify response.
publishAfterVerify(call, isValidProofResp) ==
    IF ProofInvalid(isValidProofResp)
    THEN Stretch(Ended("proof is not valid"), Undefined, TRUE,
                 <<"proof is not valid: ",
                   IF "isValidProof" \in DOMAIN isValidProofResp
                   THEN isValidProofResp.isValidProof ELSE "undefined">>)
    ELSE Stretch(Ended("success"), Undefined, TRUE, EmptyString)

\* The stretch of publishMessage that follows the await the call stands at.
Continue(call, data) ==
    CASE call.pc = "isSecretKey" -> publishAfterIsSecretKey(call, data)
      [] call.pc = "prove" -> publishAfterProve(call, data)
      [] call.pc = "verify" -> publishAfterVerify(call, data)

\* A mistaken lookup: the oldest query is taken to be the one answered.
OldestResolver(data) ==
    activeQueries[CHOOSE n \in DOMAIN activeQueries : \A m \in DOMAIN activeQueries : n <= m]

\* The resolver handleWorkerMessage calls for a response, index.js 223-224
Resolver(data) == activeQueries[data.nonce]

\* A mistaken handler: the entry is left in place.
UnregisterNothing(queries, nonce) == queries

\* delete activeQueries[nonce], index.js 225
Unregister(queries, nonce) == [n \in (DOMAIN queries) \ {nonce} |-> queries[n]]

\* The publishMessage call that awaits the promise of a resolver: the one
\* whose postWorkerMessage call took the resolver's nonce; 0 when the promise
\* is settled already.
Awaiting(resolver) ==
    IF \E c \in 1 .. MaxPublish : pubCalls[c].pc \in Waiting /\ pubCalls[c].msg.nonce = resolver
    THEN CHOOSE c \in 1 .. MaxPublish :
             pubCalls[c].pc \in Waiting /\ pubCalls[c].msg.nonce = resolver
    ELSE 0

\* handleWorkerMessage(event), index.js 222-226, with what it sets going: the
\* promise stored under the nonce of the response is resolved with the
\* response and its entry deleted; the publishMessage call that awaits the
\* promise runs on to its next await or to its end. With no resolver under
\* the nonce the handler throws and changes nothing.
handleWorkerMessage ==
    /\ page \in {"index", "worker"}
    /\ fromWorker # <<>>
    /\ fromWorker' = Tail(fromWorker)
    /\ LET data == Head(fromWorker) IN
         IF ~ (data.nonce \in DOMAIN activeQueries)
         THEN UNCHANGED <<pubCalls, publishError, workerNonce, activeQueries, workerInit>>
         ELSE LET c == Awaiting(Resolver(data))
                  queries == Unregister(activeQueries, data.nonce)
              IN  IF c = 0
                  THEN /\ activeQueries' = queries
                       /\ UNCHANGED <<pubCalls, publishError, workerNonce, workerInit>>
                  ELSE LET stretch == Continue(pubCalls[c], data) IN
                       /\ pubCalls' = [pubCalls EXCEPT ![c] = stretch.call]
                       /\ publishError' = IF stretch.set THEN stretch.text ELSE publishError
                       /\ IF stretch.post = Undefined
                          THEN /\ activeQueries' = queries
                               /\ UNCHANGED <<workerNonce, workerInit>>
                          ELSE postWorkerMessage(stretch.post, queries)
    /\ UNCHANGED <<page, authors, addAuthorError, authorsDiv, addCalls, messageDom, edits>>
    /\ UNCHANGED <<reactVars, coreVars, verifyVars>>

-----------------------------------------------------------------------------
(* The worker: onmessage, App.js 219-251 *)

\* A mistaken handler: whatever the method, the nonce is sent back.
EchoResponses(data) == {[nonce |-> data.nonce]}

\* The responses the handler can post for a message, App.js 223-250: one per
\* result of the core function the method names; none for another method.
WorkerResponses(data) ==
    CASE data.method = "prove" ->
           {[proof |-> Prove(data.publicKeys, data.message, data.secretKey, rng),
             nonce |-> data.nonce] : rng \in WorkerRngDraws(Len(data.publicKeys))}
      [] data.method = "isSecretKey" ->
           {[isSecretKey |-> IsSecretKey(data.secretKey), nonce |-> data.nonce]}
      [] data.method = "verify" ->
           {[isValidProof |-> Verify(data.proof, data.publicKeys, data.message),
             nonce |-> data.nonce]}
      [] OTHER -> {}

\* init() has returned in the handler of a message: the core function runs
\* and the response is posted. The handlers of two messages pass init() in
\* either order.
workerRespond(data) ==
    /\ page \in {"index", "verify", "verifyOld", "worker"}
    /\ data \in workerInit
    /\ workerInit' = workerInit \ {data}
    /\ IF WorkerResponses(data) = {}
       THEN UNCHANGED fromWorker
       ELSE \E response \in WorkerResponses(data) : fromWorker' = Append(fromWorker, response)
    /\ UNCHANGED <<page, authors, addAuthorError, authorsDiv, addCalls, messageDom, edits,
                   publishError, pubCalls, workerNonce, activeQueries>>
    /\ UNCHANGED <<reactVars, coreVars, verifyVars>>

-----------------------------------------------------------------------------
(* App.js: AuthorsCard.addAuthor *)

\* The test of one entry of the response, App.js 89-98
ReactKeepsKey(entry) ==
    /\ entry.key.t = "string"
    /\ entry.key.pre = "ssh-ed25519 "
    /\ entry.key.len = 80

\* The loop over keysObj, App.js 87-100
RECURSIVE ReactParseKeys(_, _, _)
ReactParseKeys(keysObj, i, keys) ==
    IF i > Len(keysObj) THEN keys
    ELSE IF ReactKeepsKey(keysObj[i])
         THEN ReactParseKeys(keysObj, i + 1, Append(keys, keysObj[i].key))
    ELSE ReactParseKeys(keysObj, i + 1, keys)

\* A click on 'Add Author' with username in #authorTextField: App.js 71-79.
\* The handler is the closure of the last render and holds its authorList.
reactAddAuthorClick(username) ==
    LET c == NextCall(reactCalls) IN
    /\ page = "react"
    /\ c # 0
    /\ reactCalls' = [reactCalls EXCEPT
           ![c] = [pc |-> "fetch", username |-> username, authorList |-> authorList]]
    /\ UNCHANGED <<page, pageVars, authorList, authorSet, coreVars, verifyVars>>

\* fetch(keysAPI) settles: App.js 79-86 and 113-115. A rejection and a
\* response that is not ok end the call with an alert.
reactAddAuthorFetched(c, result) ==
    /\ page = "react"
    /\ reactCalls[c].pc = "fetch"
    /\ reactCalls' = [reactCalls EXCEPT
           ![c] = IF result = "ok" THEN [reactCalls[c] EXCEPT !.pc = "json"] ELSE DoneReact]
    /\ UNCHANGED <<page, pageVars, authorList, authorSet, coreVars, verifyVars>>

\* response.json() settles: App.js 86-115.
reactAddAuthorParsed(c, result) ==
    LET call == reactCalls[c]
        keys == ReactParseKeys(GithubKeys(call.username), 1, <<>>)
        newAuthor == NewAuthor(call.username, keys)
    IN
    /\ page = "react"
    /\ call.pc = "json"
    /\ reactCalls' = [reactCalls EXCEPT ![c] = DoneReact]
    /\ IF result = "reject"
       THEN UNCHANGED <<authorList, authorSet>>
       ELSE /\ authorList' = Append(call.authorList, newAuthor)
            /\ authorSet' = Append(authorSet, newAuthor)
    /\ UNCHANGED <<page, pageVars, coreVars, verifyVars>>

-----------------------------------------------------------------------------
(* verify.js: the verifying page, and its older copy ("verifyOld") *)

\* The most authors a downloaded document lists.
MaxAuthors == 2

\* Usernames of a document are strings of characters; the last one holds an
\* HTML-special character.
Alice == <<"a", "l", "i", "c", "e">>

Bob == <<"b", "o", "b">>

Angle == <<"a", "<", "b">>

DocUsernames == {Alice, Bob, Angle}

\* The characters of the keys URL that name the account, verify.js 151
Account(username) ==
    CASE username = Alice -> "alice"
      [] username = Bob -> "bob"
      [] OTHER -> "nobody"

AliceKey == KeyLine(PublicEnc(Seed.alice), 0)

BobKey == KeyLine(PublicEnc(Seed.bob), 0)

\* The keys a document lists for an author.
DocKeyLists == {<<>>, <<AliceKey>>, <<BobKey>>, <<AliceKey, BobKey>>}

\* The authors of a document.
DocAuthors == [platform : {"GitHub"}, username : DocUsernames, keys : DocKeyLists]

\* The documents a skylink can name.
Documents ==
    [proof : {PastedProof, JunkText}, message : MessageTexts,
     authors : UNION {[1 .. n -> DocAuthors] : n \in 0 .. MaxAuthors}]

\* The JSON value null.
Null == [t |-> "null"]

\* Documents that are not well formed: null; a proof that is no string; no
\* message; no authors; an author without a platform, of a platform that is
\* not recognized, without keys, with a key that is no string; an author
\* that is null.
MalformedDocuments ==
    {Null,
     [proof |-> NotAString, message |-> <<>>, authors |-> <<>>],
     [proof |-> PastedProof, authors |-> <<>>],
     [proof |-> PastedProof, message |-> <<>>]}
    \cup {[proof |-> PastedProof, message |-> <<>>, authors |-> <<author>>] :
             author \in {[username |-> Alice, keys |-> <<AliceKey>>],
                         [platform |-> "GitLab", username |-> Alice, keys |-> <<AliceKey>>],
                         [platform |-> "GitHub", username |-> Alice],
                         [platform |-> "GitHub", username |-> Alice, keys |-> <<NotAString>>],
                         Null}}

\* What response.json() can give the page: any document; the older copy,
\* which checks nothing, is given the well-formed ones only (what the worker's
\* bindings make of the others is not in the source).
Downloads == IF page = "verifyOld" THEN Documents ELSE Documents \cup MalformedDocuments

\* window.location.hash: its length. A fragment of 46 characters follows '#'.
Hashes == {0, 47, 48}

\* skylinkHash.substring(1).length, verify.js 10-11
SkylinkLength(hash) == IF hash = 0 THEN 0 ELSE hash - 1

\* entityMap, verify.js 246-255 (the backtick is written "backtick")
entityMap ==
    [c \in {"&", "<", ">", "\"", "'", "/", "backtick", "="} |->
        CASE c = "&" -> <<"&", "a", "m", "p", ";">>
          [] c = "<" -> <<"&", "l", "t", ";">>
          [] c = ">" -> <<"&", "g", "t", ";">>
          [] c = "\"" -> <<"&", "q", "u", "o", "t", ";">>
          [] c = "'" -> <<"&", "#", "3", "9", ";">>
          [] c = "/" -> <<"&", "#", "x", "2", "F", ";">>
          [] c = "backtick" -> <<"&", "#", "x", "6", "0", ";">>
          [] c = "=" -> <<"&", "#", "x", "3", "D", ";">>]

\* escapeHtml(string), verify.js 256-260
RECURSIVE escapeHtml(_)
escapeHtml(string) ==
    IF string = <<>> THEN <<>>
    ELSE (IF Head(string) \in DOMAIN entityMap THEN entityMap[Head(string)]
          ELSE <<Head(string)>>) \o escapeHtml(Tail(string))

VerifyPages == {"verify", "verifyOld"}

\* The colours of the status bar and of the author entries.
Red == Colour(TRUE, "D50000")

Yellow == Colour(TRUE, "FCD083")

\* verify.js 91 and 186; the older copy has "#00A500" (320, 410).
Green == Colour(TRUE, IF page = "verifyOld" THEN "00A500" ELSE "CCF7B7")

\* The background a style of "background: "+color shows: a declaration whose
\* value is no colour is dropped, and hex digits without '#' are no colour.
Background(color) == IF color.hash THEN color.hex ELSE "none"

\* setVerificationStatus(color, message), verify.js 99-102
setVerificationStatus(color, message) == [color |-> color, message |-> message]

\* What reading a property of null leaves of performVerification: a
\* TypeError that nothing catches.
Thrown == <<"TypeError: Cannot read properties of null">>

\* The checks of one author, verify.js 50-67: the message of the first that
\* fails, the empty string when none does, Thrown when an author is null
\* (author.platform, 50). A property that is missing is undefined: no string
\* and no array.
RECURSIVE KeysMalformed(_, _)
KeysMalformed(keys, j) ==
    IF j > Len(keys) THEN EmptyString
    ELSE IF keys[j].t # "string" THEN <<"key is malformed">>
    ELSE KeysMalformed(keys, j + 1)

RECURSIVE AuthorsMalformed(_, _)
AuthorsMalformed(as, i) ==
    IF i > Len(as) THEN EmptyString
    ELSE IF as[i] = Null THEN Thrown
    ELSE IF "platform" \notin DOMAIN as[i] THEN <<"author.platform is malformed">>
    ELSE IF as[i].platform # "GitHub"
         THEN <<"author.platform is not recognized: ", as[i].platform>>
    ELSE IF "keys" \notin DOMAIN as[i] THEN <<"author.keys is malformed">>
    ELSE IF KeysMalformed(as[i].keys, 1) # EmptyString THEN KeysMalformed(as[i].keys, 1)
    ELSE AuthorsMalformed(as, i + 1)

\* The checks of the document, verify.js 34-68: Thrown when the document is
\* null (skylinkData.proof, 34). The older copy has no checks (295-296).
Malformed(data) ==
    IF page = "verifyOld" THEN EmptyString
    ELSE IF data = Null THEN Thrown
    ELSE IF data.proof.t # "string" THEN <<"data.proof is malformed">>
    ELSE IF "message" \notin DOMAIN data THEN <<"data.message is malformed">>
    ELSE IF "authors" \notin DOMAIN data THEN <<"data.authors is malformed">>
    ELSE AuthorsMalformed(data.authors, 1)

\* The id setMessageDOM gives the entry of an author, verify.js 113 and 140;
\* the older copy does not escape the username (361).
EntryId(username) ==
    <<"githubAuthor">> \o (IF page = "verifyOld" THEN username ELSE escapeHtml(username))

\* document.getElementById(id) among the entries es: the first in document
\* order that has the id, 0 for null.
getElementById(id, es) ==
    IF \E i \in 1 .. Len(es) : es[i].id = id
    THEN CHOOSE i \in 1 .. Len(es) : es[i].id = id /\ \A j \in 1 .. (i - 1) : es[j].id # id
    ELSE 0

\* verifyAuthor(author) up to its await of fetch, verify.js 149-158: the
\* entry is looked up under the username as the document has it. A run
\* carries the colours it gives its entry (marks) and how its requests ended
\* (ended).
verifyAuthor(author, es) ==
    [pc |-> "fetch", author |-> author,
     authorDiv |-> getElementById(<<"githubAuthor">> \o author.username, es),
     marks |-> <<>>, ended |-> "no"]

\* The loop of setMessageDOM, verify.js 111-144: an entry is appended for an
\* author, yellow, and the verification of the author is started at once.
RECURSIVE setMessageDOM(_, _, _, _)
setMessageDOM(as, i, es, rs) ==
    IF i > Len(as) THEN [entries |-> es, runs |-> rs]
    ELSE LET shown == Append(es, [id |-> EntryId(as[i].username), colour |-> Yellow])
         IN  setMessageDOM(as, i + 1, shown, Append(rs, verifyAuthor(as[i], shown)))

\* The verify request of performVerification, verify.js 73-83
VerifyPageRequest(data) ==
    [method |-> "verify", publicKeys |-> VerifyPublicKeys(data.authors, 1, <<>>),
     message |-> data.message, proof |-> data.proof]

\* What the verifying page leaves alone of the other pages.
otherPages == <<page, authors, addAuthorError, authorsDiv, addCalls, messageDom, edits,
                publishError, pubCalls, reactVars, coreVars>>

workerVars == <<workerNonce, activeQueries, workerInit, fromWorker>>

\* The page is loaded and the script calls performVerification(): verify.js
\* 8-19, up to the await of fetch.
performVerification ==
    /\ page \in VerifyPages
    /\ perfPc = "start"
    /\ IF SkylinkLength(locationHash) # 46
       THEN /\ status' = setVerificationStatus(Red, <<"document hash should be 46 characters">>)
            /\ perfPc' = "done"
       ELSE /\ perfPc' = "fetch"
            /\ UNCHANGED status
    /\ UNCHANGED <<locationHash, skylinkData, downloadDisabled, readMessage, entries, runs,
                   allFound>>
    /\ UNCHANGED <<otherPages, workerVars>>

\* fetch of the skylink settles: verify.js 19-28.
performVerificationFetched(result) ==
    /\ page \in VerifyPages
    /\ perfPc = "fetch"
    /\ CASE result = "reject" ->
              /\ status' = setVerificationStatus(Red,
                     <<"Unable to download data: ", "TypeError: Failed to fetch">>)
              /\ perfPc' = "done"
         [] result = "notok" ->
              /\ status' = setVerificationStatus(Red,
                     <<"Unable to download data, got response code ", "404">>)
              /\ perfPc' = "done"
         [] OTHER ->
              /\ perfPc' = "json"
              /\ UNCHANGED status
    /\ UNCHANGED <<locationHash, skylinkData, downloadDisabled, readMessage, entries, runs,
                   allFound>>
    /\ UNCHANGED <<otherPages, workerVars>>

\* response.json() settles with the document: verify.js 24-83, up to the
\* await of the verify response. The status becomes 'Processing'; a document
\* that passes the checks is rendered, the verification of its authors is
\* started and the verify request is posted. A check that throws ends the
\* call there.
performVerificationParsed(result, data) ==
    /\ page \in VerifyPages
    /\ perfPc = "json"
    /\ IF result = "reject"
       THEN /\ status' = setVerificationStatus(Red,
                     <<"Unable to download data: ", "SyntaxError: Unexpected token">>)
            /\ perfPc' = "done"
            /\ UNCHANGED <<skylinkData, readMessage, entries, runs, workerVars>>
       ELSE /\ skylinkData' = data
            /\ IF Malformed(data) = Thrown
               THEN /\ status' = setVerificationStatus(Yellow, <<"Processing">>)
                    /\ perfPc' = "threw"
                    /\ UNCHANGED <<readMessage, entries, runs, workerVars>>
               ELSE IF Malformed(data) # EmptyString
               THEN /\ status' = setVerificationStatus(Red, Malformed(data))
                    /\ perfPc' = "done"
                    /\ UNCHANGED <<readMessage, entries, runs, workerVars>>
               ELSE /\ status' = setVerificationStatus(Yellow, <<"Processing">>)
                    /\ readMessage' = [text |-> data.message,
                                       escaped |-> page # "verifyOld"]
                    /\ entries' = setMessageDOM(data.authors, 1, entries, runs).entries
                    /\ runs' = setMessageDOM(data.authors, 1, entries, runs).runs
                    /\ postWorkerMessage(VerifyPageRequest(data), activeQueries)
                    /\ perfPc' = "verify"
                    /\ UNCHANGED fromWorker
    /\ UNCHANGED <<locationHash, downloadDisabled, allFound>>
    /\ UNCHANGED otherPages

\* isValidProof !== "", verify.js 84-85
ProofIsInvalid(isValidProofResp) ==
    ~ ("isValidProof" \in DOMAIN isValidProofResp /\ isValidProofResp.isValidProof = "")

\* The colour of the status of an invalid proof, verify.js 86; the older copy
\* hands over the digits without '#' (315).
InvalidColour == IF page = "verifyOld" THEN Colour(FALSE, "D50000") ELSE Red

\* handleWorkerMessage(event), verify.js 239-243, with what it sets going:
\* performVerification runs on from its await, verify.js 84-94. The older
\* copy has no download button (319-320). With no resolver under the nonce
\* the handler throws and changes nothing.
verifyHandleWorkerMessage ==
    /\ page \in VerifyPages
    /\ fromWorker # <<>>
    /\ fromWorker' = Tail(fromWorker)
    /\ LET data == Head(fromWorker) IN
         IF ~ (data.nonce \in DOMAIN activeQueries)
         THEN UNCHANGED <<activeQueries, perfPc, status, downloadDisabled>>
         ELSE /\ activeQueries' = Unregister(activeQueries, data.nonce)
              /\ IF perfPc # "verify"
                 THEN UNCHANGED <<perfPc, status, downloadDisabled>>
                 ELSE /\ perfPc' = "done"
                      /\ IF ProofIsInvalid(data)
                         THEN /\ status' = setVerificationStatus(InvalidColour,
                                     <<"Cryptographic proof is invalid: ",
                                       IF "isValidProof" \in DOMAIN data
                                       THEN data.isValidProof ELSE "undefined">>)
                              /\ UNCHANGED downloadDisabled
                         ELSE /\ status' = setVerificationStatus(Green, <<"Proof is Valid">>)
                              /\ downloadDisabled' =
                                     IF page = "verifyOld" THEN downloadDisabled ELSE FALSE
    /\ UNCHANGED <<locationHash, skylinkData, readMessage, entries, runs, allFound>>
    /\ UNCHANGED <<otherPages, workerNonce, workerInit>>

\* A run of verifyAuthor gives its entry a colour: authorDiv.style = ...; on
\* null the assignment throws.
Mark(run, colour) == [run EXCEPT !.marks = Append(run.marks, colour)]

\* The catch of verifyAuthor, verify.js 187-191, and the return of 159-163:
\* the entry is made red and the run ends; on null the run ends by throwing.
EndRed(run) ==
    IF run.authorDiv = 0 THEN [run EXCEPT !.pc = "threw"]
    ELSE [Mark(run, Red) EXCEPT !.pc = "done"]

\* The last colour a run has given its entry: the colour of the entry.
Painted(es, run) ==
    IF run.authorDiv = 0 \/ run.marks = <<>> THEN es
    ELSE [es EXCEPT ![run.authorDiv].colour = run.marks[Len(run.marks)]]

\* fetch(keysAPI) settles in a run of verifyAuthor: verify.js 158-164 and
\* 187-191.
verifyAuthorFetched(r, result) ==
    LET run == IF result = "ok" THEN [runs[r] EXCEPT !.pc = "json"]
               ELSE EndRed([runs[r] EXCEPT !.ended = result])
    IN
    /\ page \in VerifyPages
    /\ r \in 1 .. Len(runs)
    /\ runs[r].pc = "fetch"
    /\ runs' = [runs EXCEPT ![r] = run]
    /\ entries' = Painted(entries, run)
    /\ UNCHANGED <<locationHash, skylinkData, perfPc, status, downloadDisabled, readMessage,
                   allFound>>
    /\ UNCHANGED <<otherPages, workerVars>>

\* keysObj[j].key === author.keys[i] for some j, verify.js 170-175
Found(keysObj, key) == \E j \in 1 .. Len(keysObj) : keysObj[j].key = key

\* The loop over the keys of the author, verify.js 168-183, from allFound =
\* true on: a key that is missing sets allFound to false and makes the entry
\* red. acc is <<allFound, run>>; on null the first assignment throws.
RECURSIVE CheckKeys(_, _, _, _)
CheckKeys(keys, i, keysObj, acc) ==
    IF i > Len(keys) \/ acc[2].pc = "threw" THEN acc
    ELSE IF Found(keysObj, keys[i]) THEN CheckKeys(keys, i + 1, keysObj, acc)
    ELSE CheckKeys(keys, i + 1, keysObj,
                   <<FALSE, IF acc[2].authorDiv = 0 THEN [acc[2] EXCEPT !.pc = "threw"]
                            ELSE Mark(acc[2], Red)>>)

\* verify.js 167-191 after response.json() gave keysObj.
verifyAuthorChecked(run, keysObj) ==
    LET checked == CheckKeys(run.author.keys, 1, keysObj, <<TRUE, run>>) IN
    IF checked[2].pc = "threw" THEN checked
    ELSE IF checked[1] = TRUE
         THEN IF run.authorDiv = 0 THEN <<TRUE, [run EXCEPT !.pc = "threw"]>>
              ELSE <<TRUE, [Mark(checked[2], Green) EXCEPT !.pc = "done"]>>
    ELSE <<FALSE, [checked[2] EXCEPT !.pc = "done"]>>

\* response.json() settles in a run of verifyAuthor: verify.js 165-191.
verifyAuthorParsed(r, result) ==
    LET checked == verifyAuthorChecked([runs[r] EXCEPT !.ended = "checked"],
                                       GithubKeys(Account(runs[r].author.username)))
        run == IF result = "reject" THEN EndRed([runs[r] EXCEPT !.ended = "reject"])
               ELSE checked[2]
    IN
    /\ page \in VerifyPages
    /\ r \in 1 .. Len(runs)
    /\ runs[r].pc = "json"
    /\ runs' = [runs EXCEPT ![r] = run]
    /\ entries' = Painted(entries, run)
    /\ allFound' = IF result = "reject" THEN allFound ELSE checked[1]
    /\ UNCHANGED <<locationHash, skylinkData, perfPc, status, downloadDisabled, readMessage>>
    /\ UNCHANGED <<otherPages, workerVars>>

-----------------------------------------------------------------------------
(* The core called directly *)

\* Key lines handed to the core: every point, an encoding that is no point,
\* a line of another key type.
CoreKeyLines == {KeyLine(e, 0) : e \in 0 .. L} \cup {RsaLine}

CoreRings == UNION {[1 .. n -> CoreKeyLines] : n \in 0 .. MaxRing}

CoreSecretKeys ==
    {SecretPem(seed) : seed \in 0 .. (L - 2)} \cup {EncryptedPem(0), JunkText}

CoreInit ==
    /\ page = "core"
    /\ PageInit
    /\ ReactInit
    /\ coreIn \in [publicKeys : CoreRings, message : MessageTexts, secretKey : CoreSecretKeys]
    /\ coreOut = <<EmptyText, "">>
    /\ coreVerdict = ""
    /\ corePc = "start"
    /\ VerifyIdle

\* prove(publicKeys, message, secretKey)
coreProve ==
    /\ corePc = "start"
    /\ \E p \in ProveOutcomes(coreIn.publicKeys, coreIn.message, coreIn.secretKey) :
           coreOut' = p
    /\ corePc' = "proved"
    /\ UNCHANGED <<page, pageVars, reactVars, coreIn, coreVerdict, verifyVars>>

\* verify(proof, publicKeys, message) of what prove returned, on the same
\* keys and message
coreVerify ==
    /\ corePc = "proved"
    /\ coreVerdict' = Verify(coreOut[1], coreIn.publicKeys, coreIn.message)
    /\ corePc' = "verified"
    /\ UNCHANGED <<page, pageVars, reactVars, coreIn, coreOut, verifyVars>>

-----------------------------------------------------------------------------
(* The worker and its transport alone: any message can be posted *)

\* The most messages posted.
MaxMessages == 3

\* The messages handed to postWorkerMessage: of the three methods of the
\* worker, and of a method it does not know.
WorkerMessages ==
    [method : {"isSecretKey"}, secretKey : {SecretPem(Seed.alice), JunkText}]
    \cup [method : {"prove"}, publicKeys : {<<AliceKey>>}, message : {<<>>},
          secretKey : {SecretPem(Seed.alice)}]
    \cup [method : {"verify"}, proof : {PastedProof, JunkText},
          publicKeys : {<<AliceKey>>}, message : {<<>>}]
    \cup {[method |-> "ping"]}

WorkerAloneInit ==
    /\ page = "worker"
    /\ PageInit
    /\ ReactInit
    /\ CoreIdle
    /\ VerifyIdle

\* A call of postWorkerMessage(messageData), index.js 204-219, by any caller.
postToWorker(messageData) ==
    /\ page = "worker"
    /\ workerNonce < MaxMessages
    /\ postWorkerMessage(messageData, activeQueries)
    /\ UNCHANGED <<page, authors, addAuthorError, authorsDiv, addCalls, messageDom, edits,
                   publishError, pubCalls, fromWorker>>
    /\ UNCHANGED <<reactVars, coreVars, verifyVars>>

WorkerNext ==
    \/ \E m \in WorkerMessages : postToWorker(m)
    \/ \E d \in workerInit : workerRespond(d)
    \/ handleWorkerMessage

\* init() and the core functions return, and the page's event loop runs the
\* handler of a response that has arrived.
SpecWorker ==
    /\ WorkerAloneInit
    /\ [][WorkerNext]_vars
    /\ WF_vars(\E d \in workerInit : workerRespond(d))
    /\ WF_vars(handleWorkerMessage)

-----------------------------------------------------------------------------
(* Specifications *)

Next ==
    \/ \E u \in Usernames : addAuthorClick(u)
    \/ \E c \in 1 .. MaxAdd, r \in FetchResults : addAuthorFetched(c, r)
    \/ \E c \in 1 .. MaxAdd, r \in JsonResults : addAuthorParsed(c, r)
    \/ \E m \in MessageTexts : editMessage(m)
    \/ \E t \in SigOrKeyTexts : publishClick(t)
    \/ handleWorkerMessage
    \/ \E d \in workerInit : workerRespond(d)
    \/ \E u \in Usernames : reactAddAuthorClick(u)
    \/ \E c \in 1 .. MaxAdd, r \in FetchResults : reactAddAuthorFetched(c, r)
    \/ \E c \in 1 .. MaxAdd, r \in JsonResults : reactAddAuthorParsed(c, r)

Spec == Init /\ [][Next]_vars

CoreNext == coreProve \/ coreVerify

SpecCore == CoreInit /\ [][CoreNext]_vars

\* Proofs handed to verify that prove did not make: hex texts of up to
\* MaxRing + 1 whole blocks, with or without a byte more after the last block,
\* one that holds a scalar that is not canonical, one that is no hex.
CoreProofs ==
    {[t |-> "string", kind |-> "hex", blocks |-> b, extra |-> e] :
        b \in UNION {[1 .. n -> {0, 1}] : n \in 0 .. (MaxRing + 1)}, e \in {0, 1}}
    \cup {EncodeSignature(<<L, 0>>), JunkText}

\* A call of verify on a proof at hand: no secret key, nothing proved.
GivenInit ==
    /\ page = "core"
    /\ PageInit
    /\ ReactInit
    /\ coreIn \in [publicKeys : CoreRings, message : MessageTexts, secretKey : {Undefined}]
    /\ coreOut \in {<<proof, "">> : proof \in CoreProofs}
    /\ coreVerdict = ""
    /\ corePc = "proved"
    /\ VerifyIdle

CodecInit == CoreInit \/ GivenInit

SpecCodec == CodecInit /\ [][CoreNext]_vars

\* The verifying page is loaded with a fragment.
VerifyInit ==
    /\ page \in VerifyPages
    /\ PageInit
    /\ ReactInit
    /\ CoreIdle
    /\ locationHash \in Hashes
    /\ skylinkData = Undefined
    /\ perfPc = "start"
    /\ status = NoStatus
    /\ downloadDisabled = TRUE
    /\ readMessage = Undefined
    /\ entries = <<>>
    /\ runs = <<>>
    /\ allFound = Undefined

VerifyNext ==
    \/ performVerification
    \/ \E r \in FetchResults : performVerificationFetched(r)
    \/ \E r \in JsonResults, d \in Downloads : performVerificationParsed(r, d)
    \/ \E d \in workerInit : workerRespond(d)
    \/ verifyHandleWorkerMessage
    \/ \E r \in 1 .. MaxAuthors, res \in FetchResults : verifyAuthorFetched(r, res)
    \/ \E r \in 1 .. MaxAuthors, res \in JsonResults : verifyAuthorParsed(r, res)

SpecVerify == VerifyInit /\ [][VerifyNext]_vars

\* The worker answers, and the page's event loop runs the handler of an
\* answer that has arrived.
SpecVerifyFair ==
    /\ SpecVerify
    /\ WF_vars(\E d \in workerInit : workerRespond(d))
    /\ WF_vars(verifyHandleWorkerMessage)

-----------------------------------------------------------------------------
(* Properties *)

\* C1: however many postWorkerMessage calls are outstanding and in whatever
\* order the worker's responses arrive, the promise of a call is resolved
\* only with the response that carries the nonce the call took, which is the
\* answer to that call's request: a publishMessage call leaves an await only
\* in the step that handles such a response, the response is what the await
\* gives, and no other call moves in that step.
C1_NonceCorrelation ==
    [][\A c \in 1 .. MaxPublish :
          (pubCalls[c].pc \in Waiting /\ pubCalls'[c] # pubCalls[c]) =>
              /\ fromWorker # <<>>
              /\ fromWorker' = Tail(fromWorker)
              /\ Head(fromWorker).nonce = pubCalls[c].msg.nonce
              /\ Head(fromWorker) \in WorkerResponses(pubCalls[c].msg)
              /\ pubCalls'[c].pc = "prove" => pubCalls'[c].isSecKeyResp = Head(fromWorker)
              /\ (pubCalls[c].pc = "prove" /\ pubCalls'[c].pc = "verify")
                     => pubCalls'[c].proofResponse = Head(fromWorker)
              /\ \A d \in 1 .. MaxPublish : d # c => pubCalls'[d] = pubCalls[d]
      ]_vars

\* C1, its case: two calls are outstanding and the call clicked second has
\* had its first response handled while the call clicked first still waits
\* for its own.
C1_AnsweredOutOfOrder ==
    \E c, d \in 1 .. MaxPublish :
        /\ c < d
        /\ pubCalls[c].pc = "isSecretKey"
        /\ pubCalls[d].pc \in {"prove", "verify"}
        /\ pubCalls[c].msg.nonce \in DOMAIN activeQueries
        /\ pubCalls[d].msg.nonce \in DOMAIN activeQueries

\* C2: a publishMessage call reaches success (publish error set to the empty
\* string) only in the step that handles the empty answer to its verify
\* request, and that request carries exactly the call's proof (the one prove
\* gave it, or the pasted text), its public keys and its message; a non-empty
\* answer of verify sets a 'proof is not valid' publish error and ends the
\* call without success; a call that has ended stays as it ended.
C2_SuccessOnlyAfterVerify ==
    [][\A c \in 1 .. MaxPublish :
          /\ (pubCalls'[c].outcome = "success" /\ pubCalls[c].outcome # "success") =>
                /\ pubCalls[c].pc = "verify"
                /\ pubCalls[c].msg =
                       [method |-> "verify", proof |-> pubCalls[c].proof,
                        publicKeys |-> pubCalls[c].publicKeys,
                        message |-> pubCalls[c].message,
                        nonce |-> pubCalls[c].msg.nonce]
                /\ pubCalls[c].proof =
                       IF pubCalls[c].proofResponse = Undefined
                       THEN pubCalls[c].sigOrKey
                       ELSE pubCalls[c].proofResponse.proof[1]
                /\ fromWorker # <<>>
                /\ Head(fromWorker) =
                       [isValidProof |-> "", nonce |-> pubCalls[c].msg.nonce]
                /\ Verify(pubCalls[c].proof, pubCalls[c].publicKeys, pubCalls[c].message) = ""
                /\ publishError' = EmptyString
          /\ (/\ pubCalls[c].pc = "verify"
              /\ pubCalls'[c] # pubCalls[c]
              /\ Head(fromWorker).isValidProof # "") =>
                /\ pubCalls'[c].pc = "done"
                /\ pubCalls'[c].outcome = "proof is not valid"
                /\ publishError' # EmptyString
                /\ publishError'[1] = "proof is not valid: "
          /\ pubCalls[c].pc = "done" => pubCalls'[c] = pubCalls[c]
      ]_vars

\* C2, its case: one call has succeeded and another has ended on a verify
\* that answered with an error.
C2_BothVerifyAnswers ==
    \E c, d \in 1 .. MaxPublish :
        /\ pubCalls[c].outcome = "success"
        /\ pubCalls[d].outcome = "proof is not valid"

\* C3: the public keys a call hands to prove and verify are the keys of the
\* authors it read, author after author in the order of the authors array
\* and key after key within an author, none dropped, repeated or moved; and
\* the loop of the verifying page gives the same list on the same authors.
C3_FlattenedInOrder ==
    \A c \in 1 .. MaxPublish :
        pubCalls[c].pc \in {"prove", "verify"} =>
            LET as == pubCalls[c].authorsRead
                publicKeys == pubCalls[c].publicKeys
                RECURSIVE Before(_)
                Before(i) == IF i <= 1 THEN 0 ELSE Before(i - 1) + Len(as[i - 1].keys)
            IN  /\ Len(publicKeys) = Before(Len(as) + 1)
                /\ \A i \in 1 .. Len(as) : \A j \in 1 .. Len(as[i].keys) :
                       publicKeys[Before(i) + j] = as[i].keys[j]
                /\ publicKeys = VerifyPublicKeys(as, 1, <<>>)
                /\ pubCalls[c].msg.publicKeys = publicKeys

\* C3, its case: a call has asked prove or verify with the keys of two
\* authors, one of them with two keys.
C3_TwoAuthorsThreeKeys ==
    \E c \in 1 .. MaxPublish :
        /\ pubCalls[c].pc \in {"prove", "verify"}
        /\ Len(pubCalls[c].authorsRead) = 2
        /\ \E i \in 1 .. 2 : Len(pubCalls[c].authorsRead[i].keys) = 2
        /\ Len(pubCalls[c].msg.publicKeys) = 3

\* C4: when a call goes from its prove request to its verify request, the
\* verify request it posts carries the public keys and the message of the
\* prove request, whatever happened to the authors and to the message text
\* in between.
C4_VerifyRequestAsProveRequest ==
    [][\A c \in 1 .. MaxPublish :
          (pubCalls[c].pc = "prove" /\ pubCalls'[c].pc = "verify") =>
              /\ pubCalls[c].msg.method = "prove"
              /\ pubCalls'[c].msg.method = "verify"
              /\ pubCalls'[c].msg \in workerInit'
              /\ pubCalls'[c].msg.publicKeys = pubCalls[c].msg.publicKeys
              /\ pubCalls'[c].msg.message = pubCalls[c].msg.message
      ]_vars

\* C4, its case: a call that went through prove has its verify request out,
\* and since it read them an author was added and the message text changed.
C4_ChangedInFlight ==
    \E c \in 1 .. MaxPublish :
        /\ pubCalls[c].pc = "verify"
        /\ pubCalls[c].proofResponse # Undefined
        /\ authors # pubCalls[c].authorsRead
        /\ messageDom # pubCalls[c].message

\* C5: a call sends a prove request exactly when the isSecretKey response it
\* got is true; otherwise it sends no prove request and its verify request
\* carries the pasted text unchanged as the proof. The first request of a
\* call is the isSecretKey request, and a prove or verify request is sent
\* only by a call that has had its isSecretKey response.
C5_ProveIffSecretKey ==
    [][\A c \in 1 .. MaxPublish :
          /\ (pubCalls[c].pc = "idle" /\ pubCalls'[c] # pubCalls[c]) =>
                /\ pubCalls'[c].pc = "isSecretKey"
                /\ pubCalls'[c].msg.method = "isSecretKey"
                /\ pubCalls'[c].msg.secretKey = pubCalls'[c].sigOrKey
                /\ pubCalls'[c].msg \in workerInit'
          /\ (pubCalls[c].pc = "isSecretKey" /\ pubCalls'[c] # pubCalls[c]) =>
                /\ (pubCalls'[c].pc = "prove") <=> (Head(fromWorker).isSecretKey = TRUE)
                /\ pubCalls'[c].msg \in workerInit'
                /\ pubCalls'[c].sigOrKey = pubCalls[c].sigOrKey
                /\ IF Head(fromWorker).isSecretKey = TRUE
                   THEN /\ pubCalls'[c].msg.method = "prove"
                        /\ pubCalls'[c].msg.secretKey = pubCalls[c].sigOrKey
                   ELSE /\ pubCalls'[c].pc = "verify"
                        /\ pubCalls'[c].msg.method = "verify"
                        /\ pubCalls'[c].msg.proof = pubCalls[c].sigOrKey
          /\ (pubCalls'[c].pc = "prove" /\ pubCalls[c].pc # "prove")
                => pubCalls[c].pc = "isSecretKey"
          /\ (pubCalls'[c].pc = "verify" /\ pubCalls[c].pc # "verify")
                => pubCalls[c].pc \in {"isSecretKey", "prove"}
          /\ \A m \in workerInit' \ workerInit :
                m.method = "prove" =>
                    \E d \in 1 .. MaxPublish :
                        /\ pubCalls[d].pc = "isSecretKey"
                        /\ pubCalls'[d].msg = m
                        /\ Head(fromWorker).isSecretKey = TRUE
      ]_vars

\* C5, its case: one call has its prove request out after a true isSecretKey
\* response, another its verify request with the pasted text after a false
\* one.
C5_BothBranches ==
    \E c, d \in 1 .. MaxPublish :
        /\ pubCalls[c].pc = "prove"
        /\ pubCalls[c].isSecKeyResp.isSecretKey = TRUE
        /\ pubCalls[c].msg \in workerInit
        /\ pubCalls[d].pc = "verify"
        /\ pubCalls[d].isSecKeyResp.isSecretKey = FALSE
        /\ pubCalls[d].proofResponse = Undefined
        /\ pubCalls[d].msg.proof = pubCalls[d].sigOrKey
        /\ pubCalls[d].msg \in workerInit

\* C6: when the prove response has a non-empty error, the call sets an
\* 'unable to sign message' publish error and ends, sending nothing more and
\* never succeeding; when the error is empty, the first element of the
\* result is the proof the call goes on with.
C6_ProveErrorEndsCall ==
    [][\A c \in 1 .. MaxPublish :
          /\ (pubCalls[c].pc = "prove" /\ pubCalls'[c] # pubCalls[c]) =>
                IF Head(fromWorker).proof[2] # ""
                THEN /\ pubCalls'[c].pc = "done"
                     /\ pubCalls'[c].outcome = "unable to sign message"
                     /\ publishError' # EmptyString
                     /\ publishError'[1] = "unable to sign message: "
                     /\ workerInit' = workerInit
                     /\ workerNonce' = workerNonce
                ELSE /\ pubCalls'[c].pc = "verify"
                     /\ pubCalls'[c].proof = Head(fromWorker).proof[1]
                     /\ pubCalls'[c].msg.method = "verify"
                     /\ pubCalls'[c].msg.proof = Head(fromWorker).proof[1]
          /\ pubCalls[c].outcome = "unable to sign message" =>
                pubCalls'[c] = Ended("unable to sign message")
      ]_vars

\* C6, its case: a call has ended on a prove error, whose message the page
\* shows, and another has gone on to verify with the proof prove gave it.
C6_ProveFailedAndSucceeded ==
    \E c, d \in 1 .. MaxPublish :
        /\ pubCalls[c].outcome = "unable to sign message"
        /\ publishError # EmptyString
        /\ publishError[1] = "unable to sign message: "
        /\ pubCalls[d].pc = "verify"
        /\ pubCalls[d].proofResponse # Undefined
        /\ pubCalls[d].proof = pubCalls[d].proofResponse.proof[1]

\* C7: every key kept for an author, on the signing page and in the React
\* card, is a string that starts with 'ssh-ed25519 ', and so is every key in
\* a request the signing page has made of prove or verify.
C7_OnlyEd25519Keys ==
    LET IsEd25519(key) ==
            key.t = "string" /\ "pre" \in DOMAIN key /\ key.pre = "ssh-ed25519 "
        AllEd25519(keys) == \A j \in 1 .. Len(keys) : IsEd25519(keys[j])
    IN  /\ \A i \in 1 .. Len(authors) : AllEd25519(authors[i].keys)
        /\ \A i \in 1 .. Len(authorList) : AllEd25519(authorList[i].keys)
        /\ \A i \in 1 .. Len(authorSet) : AllEd25519(authorSet[i].keys)
        /\ \A m \in workerInit : "publicKeys" \in DOMAIN m => AllEd25519(m.publicKeys)
        /\ \A c \in 1 .. MaxPublish :
               /\ AllEd25519(pubCalls[c].publicKeys)
               /\ (pubCalls[c].pc \in {"prove", "verify"})
                      => AllEd25519(pubCalls[c].msg.publicKeys)

\* C7, its case: alice and bob, whose GitHub answers hold an RSA key and a
\* key that is no string, are authors, and a request with their keys is on
\* its way to the worker.
C7_FilteredAuthorsSent ==
    /\ Len(authors) = 2
    /\ \E i \in 1 .. Len(authors) : authors[i].username = "bob"
    /\ \E i \in 1 .. Len(authors) : authors[i].username = "alice"
    /\ \E m \in workerInit : "publicKeys" \in DOMAIN m /\ Len(m.publicKeys) = 3

\* C8: a key line that starts with 'ssh-ed25519 ' and is valid but for its
\* length (it carries a trailing comment) is kept by addAuthor: once bob is
\* an author, the signing page and the React card hold that key of his.
C8_CommentedKeyKept ==
    LET Commented == KeyLine(PublicEnc(Seed.desktop), 11)
        Holds(as) ==
            \A i \in 1 .. Len(as) :
                as[i].username = "bob" =>
                    \E j \in 1 .. Len(as[i].keys) : as[i].keys[j] = Commented
    IN  /\ ParsePublicKey(Commented).ok
        /\ Holds(authors)
        /\ Holds(authorList)

\* The arguments of a direct call are a ring that holds the signer's key: the
\* secret key parses, every key line parses, and the public point of the
\* secret key is among the points.
CoreSignerInRing ==
    /\ ParseSecretKey(coreIn.secretKey).ok
    /\ Len(coreIn.publicKeys) >= 1
    /\ RingError(coreIn.publicKeys) = ""
    /\ \E i \in 1 .. Len(coreIn.publicKeys) :
           RingOf(coreIn.publicKeys)[i] = ParseSecretKey(coreIn.secretKey).A

\* The arguments of a direct call are a ring without the signer's key: the
\* secret key parses, every key line parses, and the public point of the
\* secret key is not among the points.
CoreSignerAbsent ==
    /\ ParseSecretKey(coreIn.secretKey).ok
    /\ RingError(coreIn.publicKeys) = ""
    /\ \A i \in 1 .. Len(coreIn.publicKeys) :
           RingOf(coreIn.publicKeys)[i] # ParseSecretKey(coreIn.secretKey).A

\* C9 as stated: on every ring of one key or more that holds the signer's
\* key, at any place and any number of times, and every message, Prove
\* succeeds and Verify of its signature on the same ring and message
\* returns the empty string.
C9_ProveAlwaysSucceeds ==
    (CoreSignerInRing /\ corePc \in {"proved", "verified"}) =>
        /\ coreOut[2] = ""
        /\ corePc = "verified" => coreVerdict = ""

\* C9 amended: on every such ring and message Prove succeeds unless the
\* entropy source fails, which it reports as RNG_FAILURE with an empty
\* signature; and whenever Prove succeeds, Verify of its signature on the
\* same ring and message returns the empty string.
C9_CompleteUnlessRngFails ==
    (CoreSignerInRing /\ corePc \in {"proved", "verified"}) =>
        /\ coreOut[2] \in {"", "RNG_FAILURE"}
        /\ coreOut[2] = "RNG_FAILURE" => coreOut[1] = EmptyText
        /\ coreOut[2] = "" => DecodeSignature(coreOut[1]).ok
        /\ (coreOut[2] = "" /\ corePc = "verified") => coreVerdict = ""

\* C9, its case: a ring of two keys with the signer's key in both places,
\* signed and accepted.
C9_SignedAndAccepted ==
    /\ CoreSignerInRing
    /\ Len(coreIn.publicKeys) = 2
    /\ coreIn.publicKeys[1] = coreIn.publicKeys[2]
    /\ corePc = "verified"
    /\ coreOut[2] = ""
    /\ coreVerdict = ""

\* C10: on a ring that does not hold the public key of the signer's secret
\* key Prove returns SIGNER_NOT_IN_RING; and whatever its arguments, Prove
\* returns an error with the empty signature, and a signature with the empty
\* error.
C10_SignerNotInRing ==
    corePc \in {"proved", "verified"} =>
        /\ CoreSignerAbsent => coreOut[2] = "SIGNER_NOT_IN_RING"
        /\ coreOut[2] # "" => coreOut[1] = EmptyText
        /\ coreOut[2] = "" => coreOut[1] # EmptyText
        /\ coreOut[2] \in {"", "PARSE_SECKEY", "PARSE_PUBKEY", "INVALID_POINT",
                           "SIGNER_NOT_IN_RING", "RNG_FAILURE"}

\* C10, its case: Prove has been called on a ring of two keys of others.
C10_OutsiderRefused ==
    /\ CoreSignerAbsent
    /\ Len(coreIn.publicKeys) = 2
    /\ corePc = "proved"
    /\ coreOut = <<EmptyText, "SIGNER_NOT_IN_RING">>

\* C13: a signature Prove makes for a ring of n keys decodes to 32(n+1)
\* bytes; and Verify rejects a proof whose decoded length is no positive
\* multiple of 32, or whose ring size, length / 32 - 1, is not the number of
\* keys of the ring it is given.
C13_LengthDecidesRingSize ==
    LET proof == coreOut[1]
        n == Len(coreIn.publicKeys)
    IN  /\ (corePc \in {"proved", "verified"} /\ coreIn.secretKey # Undefined /\ coreOut[2] = "")
               => DecodedLength(proof) = 32 * (n + 1)
        /\ (corePc = "verified" /\ "kind" \in DOMAIN proof /\ proof.kind = "hex") =>
               ((\/ DecodedLength(proof) % 32 # 0
                 \/ DecodedLength(proof) <= 0
                 \/ (DecodedLength(proof) \div 32) - 1 # n) => coreVerdict # "")

\* C13, its case: verify has refused, as PARSE_SIG, a proof of two whole
\* blocks for a ring of two keys that parse.
C13_WrongSizeRefused ==
    /\ corePc = "verified"
    /\ coreIn.secretKey = Undefined
    /\ Len(coreIn.publicKeys) = 2
    /\ RingError(coreIn.publicKeys) = ""
    /\ coreOut[1] = EncodeSignature(<<0, 1>>)
    /\ coreVerdict = "PARSE_SIG"


\* C18: whatever the interleaving of the addAuthor calls of the signing page,
\* calls for one username started before any of their requests completed
\* included, the authors array never holds two entries with the same username.
C18_NoTwoEntriesOfOneUsername ==
    \A i, j \in 1 .. Len(authors) :
        authors[i].username = authors[j].username => i = j

\* Two calls for one username were in flight together: one has added the
\* author while the other, started before, still awaits its response body.
C18_AddedWhileTwinInFlight ==
    \E c \in 1 .. MaxAdd :
        /\ addCalls[c].pc = "json"
        /\ \E i \in 1 .. Len(authors) : authors[i].username = addCalls[c].username

\* C20: every author in the authors array of the signing page has at least
\* one key: a call of addAuthor whose response holds no usable key adds no
\* author and reports 'no valid keys found' (or the error of a response body
\* that did not parse).
C20_EveryAuthorHasAKey ==
    [][/\ \A i \in 1 .. Len(authors') : Len(authors'[i].keys) >= 1
       /\ \A c \in 1 .. MaxAdd :
              (/\ addCalls[c].pc = "json"
               /\ addCalls'[c].pc = "done"
               /\ \A i \in 1 .. Len(GithubKeys(addCalls[c].username)) :
                      ~KeepsKey(GithubKeys(addCalls[c].username)[i]))
              => /\ authors' = authors
                 /\ authorsDiv' = authorsDiv
                 /\ addAuthorError' \in {<<"no valid keys found">>,
                                         <<"SyntaxError: Unexpected token">>}]_vars

\* A call for carol, who has an RSA key only, was refused after alice was
\* added.
C20_KeylessAuthorRefused ==
    /\ addAuthorError = <<"no valid keys found">>
    /\ Len(authors) = 1
    /\ authors[1].username = "alice"
    /\ \A c \in 1 .. MaxAdd : addCalls[c].pc = "done"

\* C19: in the React AuthorsCard, whenever no addAuthor call is in flight the
\* author list of the React state and the global authorSet match (the same
\* authors in the same order), also after calls whose requests overlapped.
C19_ListsMatch ==
    (\A c \in 1 .. MaxAdd : reactCalls[c].pc \in {"idle", "done"})
        => authorList = authorSet

\* C17: when the proof pasted into or made by publishMessage is verified as
\* valid, the confession is published and a link to it is produced: the step
\* in which a call ends in success leaves the link on the page, in
\* #publishError, the one element publishMessage writes.
C17_SuccessLeavesALink ==
    [][\A c \in 1 .. MaxPublish :
          (pubCalls[c].outcome # "success" /\ pubCalls'[c].outcome = "success")
              => publishError' # EmptyString]_vars

\* What the core's verify gives for the proof, the flattened keys and the
\* message of the document downloaded; Undefined before the download.
DocumentVerdict ==
    IF skylinkData = Undefined THEN Undefined
    ELSE Verify(skylinkData.proof, VerifyPublicKeys(skylinkData.authors, 1, <<>>),
                skylinkData.message)

\* C14: on the verifying page 'Proof is Valid' is shown and the download
\* button enabled only if the verify response for the proof, the flattened
\* keys and the message of the downloaded document was the empty string; once
\* a response that is not empty is handled the status is the red
\* 'Cryptographic proof is invalid' and the button stays disabled; a red
\* status is never replaced by 'Proof is Valid'.
C14_ValidOnlyOnEmptyVerdict ==
    [][/\ (status'.message = <<"Proof is Valid">> \/ ~ downloadDisabled')
              => DocumentVerdict' = ""
       /\ (perfPc' = "done" /\ readMessage' # Undefined /\ DocumentVerdict' # "")
              => /\ status'.message[1] = "Cryptographic proof is invalid: "
                 /\ Background(status'.color) = Red.hex
                 /\ downloadDisabled'
       /\ Background(status.color) = Red.hex
              => status'.message # <<"Proof is Valid">>]_vars

\* C15: a run of verifyAuthor that has ended has marked the entry of its
\* author green if and only if the key request succeeded and every key the
\* document lists for the author is the key of some entry of the response;
\* it has marked the entry red if the request failed or a listed key is
\* absent; and it has given the entry no green after a red.
C15_GreenIffAllKeysFound ==
    \A r \in 1 .. Len(runs) :
        LET run == runs[r]
            allKeysFound ==
                \A i \in 1 .. Len(run.author.keys) :
                    Found(GithubKeys(Account(run.author.username)), run.author.keys[i])
            marked(colour) ==
                run.authorDiv = r /\ \E i \in 1 .. Len(run.marks) : run.marks[i] = colour
        IN  run.pc \in {"done", "threw"} =>
                /\ marked(Green) <=> (run.ended = "checked" /\ allKeysFound)
                /\ (run.ended # "checked" \/ ~ allKeysFound) => marked(Red)
                /\ \A i, j \in 1 .. Len(run.marks) :
                       (i < j /\ run.marks[i] = Red) => run.marks[j] # Green

\* C16: an author entry is yellow only while its author is being verified:
\* whatever the usernames of the document, once the run of verifyAuthor
\* started for the author of an entry has ended, the entry is green or red.
C16_YellowOnlyWhileVerified ==
    \A r \in 1 .. Len(runs) :
        runs[r].pc \in {"done", "threw"} => entries[r].colour \in {Green, Red}

\* C21: an addAuthor call that ends in an error (the username is already in
\* the array before or after the request, the response is not ok, the fetch
\* fails, no key is usable) leaves the authors array as it was and sets an
\* add-author error that is not empty; a call that adds an author appends one
\* entry, of its username, at the end of the array, leaves the earlier entries
\* as they were and clears the error; no other step changes the array.
C21_AddAuthorFrame ==
    [][/\ \A c \in 1 .. MaxAdd :
              (addCalls[c].pc # "done" /\ addCalls'[c].pc = "done") =>
                  LET username == addCalls[c].username
                      inError ==
                          \/ addCalls[c].pc \in {"idle", "fetch"}
                          \/ \E i \in 1 .. Len(authors) : authors[i].username = username
                          \/ \A i \in 1 .. Len(GithubKeys(username)) :
                                 ~ KeepsKey(GithubKeys(username)[i])
                      unchanged == authors' = authors /\ addAuthorError' # EmptyString
                      appended ==
                          /\ Len(authors') = Len(authors) + 1
                          /\ SubSeq(authors', 1, Len(authors)) = authors
                          /\ authors'[Len(authors')].username = username
                          /\ addAuthorError' = EmptyString
                  IN  /\ unchanged \/ appended
                      /\ inError => unchanged
       /\ (\A c \in 1 .. MaxAdd : addCalls'[c].pc = "done" <=> addCalls[c].pc = "done")
              => authors' = authors]_vars

\* One call has added alice and another, for bob, has ended on a response
\* that was not ok: the array holds alice alone and the error is set.
C21_AddedThenRefused ==
    /\ Len(authors) = 1
    /\ authors[1].username = "alice"
    /\ addAuthorError = <<"error adding ", "bob", ": ", "404">>
    /\ \A c \in 1 .. MaxAdd : addCalls[c].pc = "done"

\* C22: on the signing page the entries of the authors list of the page
\* correspond one to one, in the same order, to the entries of the authors
\* array; an author is added to both at their ends in the step in which its
\* call completes, so with overlapping calls the order is that of completion.
C22_ListShowsArray ==
    [][/\ Len(authorsDiv') = Len(authors')
       /\ \A i \in 1 .. Len(authors') :
              authorsDiv'[i] = <<"githubAuthor", authors'[i].username>>
       /\ \A c \in 1 .. MaxAdd :
              (addCalls[c].pc = "json" /\ addCalls'[c].pc = "done" /\ authors' # authors)
                  => /\ authors'[Len(authors')].username = addCalls[c].username
                     /\ SubSeq(authors', 1, Len(authors)) = authors
                     /\ SubSeq(authorsDiv', 1, Len(authorsDiv)) = authorsDiv]_vars

\* The call for bob, started second, has completed first: bob is the first
\* entry of both while the call for alice, started first, is in flight.
C22_SecondCallFirstEntry ==
    /\ addCalls[1].pc \in {"fetch", "json"}
    /\ addCalls[1].username = "alice"
    /\ Len(authors) = 1
    /\ authors[1].username = "bob"
    /\ authorsDiv = <<<<"githubAuthor", "bob">>>>

\* C23: postWorkerMessage hands out the nonces 0, 1, 2, ... in call order,
\* each once, and the keys of activeQueries are at all times exactly the
\* nonces of the requests posted whose response is not handled yet (requests
\* at the worker and responses on their way back): the resolver is stored in
\* the step that posts the request and removed in the step that handles the
\* response.
C23_QueriesAreOutstandingNonces ==
    [][/\ DOMAIN activeQueries' =
              {m.nonce : m \in workerInit'}
              \cup {fromWorker'[i].nonce : i \in 1 .. Len(fromWorker')}
       /\ \A n \in DOMAIN activeQueries' : n < workerNonce'
       /\ \A m \in workerInit' \ workerInit :
              /\ m.nonce = workerNonce
              /\ workerNonce' = workerNonce + 1
              /\ workerInit' \ workerInit = {m}
              /\ m.nonce \in DOMAIN activeQueries'
              /\ m.nonce \notin DOMAIN activeQueries
       /\ workerNonce' # workerNonce => workerInit' \ workerInit # {}
       /\ (fromWorker # <<>> /\ fromWorker' = Tail(fromWorker))
              => /\ Head(fromWorker).nonce \in DOMAIN activeQueries
                 /\ Head(fromWorker).nonce \notin DOMAIN activeQueries']_vars

\* Two publishMessage calls are outstanding after a response was handled: one
\* request is at the worker, one response is on its way back.
C23_TwoOutstanding ==
    /\ workerNonce >= 3
    /\ Cardinality(DOMAIN activeQueries) = 2
    /\ Cardinality(workerInit) = 1
    /\ Len(fromWorker) = 1

\* C24: for a message of the method prove, isSecretKey or verify the worker
\* posts one response, with the nonce of the message and the result of the
\* core function the method names on the arguments of the message, and the
\* postWorkerMessage call of the message is resolved in the end; for a
\* message of another method it posts nothing.
C24_OneResponsePerRequest ==
    /\ [][/\ \A m \in workerInit \ workerInit' :
                 IF m.method \in {"prove", "isSecretKey", "verify"}
                 THEN /\ Len(fromWorker') = Len(fromWorker) + 1
                      /\ SubSeq(fromWorker', 1, Len(fromWorker)) = fromWorker
                      /\ fromWorker'[Len(fromWorker')].nonce = m.nonce
                      /\ m.method = "isSecretKey" =>
                             fromWorker'[Len(fromWorker')] =
                                 [isSecretKey |-> IsSecretKey(m.secretKey), nonce |-> m.nonce]
                      /\ m.method = "verify" =>
                             fromWorker'[Len(fromWorker')] =
                                 [isValidProof |-> Verify(m.proof, m.publicKeys, m.message),
                                  nonce |-> m.nonce]
                      /\ m.method = "prove" =>
                             \E rng \in RngDraws(Len(m.publicKeys)) :
                                 fromWorker'[Len(fromWorker')] =
                                     [proof |-> Prove(m.publicKeys, m.message, m.secretKey, rng),
                                      nonce |-> m.nonce]
                 ELSE fromWorker' = fromWorker
          /\ Len(fromWorker') > Len(fromWorker) => workerInit \ workerInit' # {}]_vars
    /\ \A n \in 0 .. (MaxMessages - 1) :
           (\E m \in workerInit :
                m.nonce = n /\ m.method \in {"prove", "isSecretKey", "verify"})
               ~> (n < workerNonce /\ n \notin DOMAIN activeQueries)

\* Every message has been dealt with: a message of an unknown method was
\* posted second and has no response, its query is still registered; the
\* calls before and after it are resolved.
C24_UnknownMethodUnanswered ==
    /\ page = "worker"
    /\ workerNonce = MaxMessages
    /\ workerInit = {}
    /\ fromWorker = <<>>
    /\ DOMAIN activeQueries = {1}

\* C25: performVerification renders nothing of the document, starts no
\* verification of an author and sends no verify request unless the fragment
\* has 46 characters, the download succeeded and the document is well formed
\* (proof and message are strings, authors is an array, every author has the
\* platform 'GitHub' and an array of keys that are strings); in every failing
\* case it has shown a red status when it stops.
C25_MalformedGetsRedAndStops ==
    LET wellFormedAuthor(author) ==
            /\ author # Null
            /\ "platform" \in DOMAIN author
            /\ author.platform = "GitHub"
            /\ "keys" \in DOMAIN author
            /\ \A j \in 1 .. Len(author.keys) : author.keys[j].t = "string"
        wellFormed(data) ==
            /\ data # Null
            /\ data.proof.t = "string"
            /\ "message" \in DOMAIN data
            /\ "authors" \in DOMAIN data
            /\ \A i \in 1 .. Len(data.authors) : wellFormedAuthor(data.authors[i])
        passes ==
            /\ SkylinkLength(locationHash) = 46
            /\ skylinkData # Undefined
            /\ wellFormed(skylinkData)
    IN  page = "verify" =>
            /\ (readMessage # Undefined \/ entries # <<>> \/ runs # <<>> \/ workerNonce > 0)
                   => passes
            /\ (perfPc \notin {"start", "fetch", "json"} /\ ~ passes)
                   => /\ Background(status.color) = Red.hex
                      /\ perfPc \in {"done", "threw"}

\* C26: performVerification ends with a final status: once 'Processing' is
\* shown for a downloaded document the status becomes, in the end, a red
\* error status or 'Proof is Valid' (the worker answering the verify
\* request); it does not stay at 'Processing'.
C26_ProcessingIsLeft ==
    (page = "verify" /\ status.message = <<"Processing">>)
        ~> (Background(status.color) = Red.hex \/ status.message = <<"Proof is Valid">>)

\* C27: the colour of an author's entry depends on the keys the document
\* lists for that author and on that author's GitHub response alone: however
\* the requests of the concurrent verifyAuthor calls, which share allFound,
\* complete, no entry is green while a key of its author is missing from the
\* response, and no entry is left other than green once the response for its
\* author has come and holds all of its keys.
C27_ColourIsTheAuthorsOwn ==
    \A r \in 1 .. Len(runs) :
        LET author == runs[r].author
            allKeysFound ==
                \A i \in 1 .. Len(author.keys) :
                    Found(GithubKeys(Account(author.username)), author.keys[i])
        IN  /\ entries[r].colour = Green => allKeysFound
            /\ (runs[r].pc \in {"done", "threw"} /\ runs[r].ended = "checked" /\ allKeysFound)
                   => entries[r].colour = Green

\* C28: the pasted text is the proof of a verify request only of a call whose
\* isSecretKey response was not true; a call whose isSecretKey response was
\* true sends its verify request after the prove response, with the proof
\* that response holds, and no request that is posted carries, as a proof,
\* the text of a call in flight that isSecretKey classified as a secret key.
C28_SecretKeyNotSentToVerify ==
    [][\A m \in workerInit' \ workerInit : \A c \in 1 .. MaxPublish :
          /\ (pubCalls'[c].msg = m /\ m.method = "verify") =>
                IF pubCalls'[c].isSecKeyResp.isSecretKey = TRUE
                THEN /\ pubCalls[c].pc = "prove"
                     /\ m.proof = Head(fromWorker).proof[1]
                     /\ m.proof # pubCalls'[c].sigOrKey
                ELSE /\ pubCalls[c].pc = "isSecretKey"
                     /\ m.proof = pubCalls'[c].sigOrKey
          /\ ("isSecretKey" \in DOMAIN pubCalls'[c].isSecKeyResp
              /\ pubCalls'[c].isSecKeyResp.isSecretKey = TRUE) =>
                /\ "proof" \in DOMAIN m => m.proof # pubCalls'[c].sigOrKey
                /\ ("secretKey" \in DOMAIN m /\ m.secretKey = pubCalls'[c].sigOrKey)
                       => m.method \in {"isSecretKey", "prove"}]_vars

\* A call whose text was classified as a secret key has its verify request
\* out, with the proof that prove returned.
C28_VerifyOfProvedProof ==
    \E c \in 1 .. MaxPublish :
        /\ pubCalls[c].pc = "verify"
        /\ pubCalls[c].isSecKeyResp.isSecretKey = TRUE
        /\ pubCalls[c].msg \in workerInit
        /\ pubCalls[c].msg.proof = pubCalls[c].proofResponse.proof[1]
        /\ pubCalls[c].msg.proof # pubCalls[c].sigOrKey
        /\ IsSecretKey(pubCalls[c].sigOrKey)
=============================================================================
